---- MODULE Spec2Model ----
(***************************************************************************)
(* Model of the chat view (ChatInterface in App.jsx) and of the recording  *)
(* hook (useDeepgramVoiceRecording).  Every action is one event-loop task: *)
(* a user event handler, a platform callback, the continuation of an       *)
(* awaited promise, or a passive effect React has scheduled.  React        *)
(* re-renders at the end of a task that set state, so a handler reads the  *)
(* state of the render in which it was created; values captured by an      *)
(* asynchronous continuation are kept explicitly (chatReqs).               *)
(*                                                                         *)
(* The application is rendered by createRoot without an error boundary:    *)
(* an error thrown while rendering, or by a mount effect, unmounts the     *)
(* root.  The state of the components is then gone and every setter is     *)
(* ignored, while the hook has no cleanup: promises, recorders, streams    *)
(* and requests it holds through its refs keep running.                    *)
(*                                                                         *)
(* The browser is modelled after the MediaStream Recording interface:      *)
(* a recorder is "recording" after start(), stop() inactivates it and      *)
(* queues one task that fires dataavailable and stop ("stopping" until     *)
(* that task runs); a stream is live until its tracks are stopped by the   *)
(* code or ended by the device.                                            *)
(***************************************************************************)
EXTENDS Integers, Sequences, FiniteSets, TLC

\* ---------------------------------------------------------------- bounds
MaxAttempts == 2   \* text submissions plus recording starts per run
MaxChunks   == 1   \* timeslice chunks held in the buffer
MaxNow      == 2   \* last reading of Date.now(), in ms after the first

RecIds    == 1..MaxAttempts
SessionIds == 1..2                       \* 0 stands for null / absent
Locations == {"Tokyo", "Mumbai"}
Weathers  == {1}                         \* 0 stands for null / absent
Texts     == {"", "q"}                   \* trimmed content of the text input
Confidences == {55, 90}                  \* transcription confidence, in percent

VARIABLES
    \* ---- useDeepgramVoiceRecording
    isSupported, isRecording, isProcessing, voiceError,
    mediaRecorderRef, audioChunksRef, streamRef,
    \* ---- browser: getUserMedia / MediaRecorder / fetch
    pendingStarts,      \* startRecording calls suspended at getUserMedia
    granted,            \* streams handed out so far; grant i makes stream i, recorder i
    rstate,             \* recorder i: "none", "recording", "stopping", "inactive"
    streamLive,         \* streams whose tracks are live (microphone held)
    voiceReq,           \* recorders whose blob is posted to /api/chat/voice/process
                        \* and not yet answered
    \* ---- ChatInterface
    mounted,            \* the view is mounted (window.deepgramResult installed)
    crashed,            \* an error thrown in a render or in a mount effect
                        \* has unmounted the root
    messages, isLoading, currentWeather, error, sessionId,
    currentLocation,
    effectDue,          \* the hook error captured by the effect on [voiceError]
                        \* that is scheduled and has not run; "no" when none is
    deepgramResult,     \* window.deepgramResult: the sessionId captured by the
                        \* handler the effect on [sessionId, currentLocation]
                        \* installed last
    initData,           \* calls of loadInitialData waiting for their GET
    chatReqs,           \* outstanding POST /api/chat/ with the sender's closure
    sends,              \* text submissions so far
    \* ---- apiUtils
    audioBlob,          \* the argument of validateAudioBlob
    validation,         \* what validateAudioBlob returned for it
    \* ---- message identifiers
    now,                \* the last reading of Date.now(), in ms
    ids,                \* ids[k] is twice the id of messages[k]
    \* ---- history
    stopCause,          \* recorder i -> which call queued its pending stop task:
                        \* "stop", "cancel", "tracks", or "no" when none is queued
    uncaught,           \* a control function of the hook threw to its caller
    started             \* recorders whose start(100) returned

hookVars == <<isSupported, isRecording, isProcessing, voiceError,
              mediaRecorderRef, audioChunksRef, streamRef>>
platVars == <<pendingStarts, granted, rstate, streamLive, voiceReq>>
\* The view without its error banner.
viewRest == <<mounted, crashed, messages, isLoading, currentWeather,
              sessionId, currentLocation, initData, chatReqs, sends>>
viewVars == <<viewRest, error, effectDue, deepgramResult>>
apiVars  == <<audioBlob, validation>>
idVars   == <<now, ids>>
histVars == <<stopCause, uncaught, started>>
vars == <<hookVars, platVars, viewVars, apiVars, idVars, histVars>>

\* User-triggered operations so far: text submissions and recording starts.
Attempts == sends + granted + pendingStarts

\* ------------------------------------------------------------- helpers
\* A log entry: its type and whether it comes from the voice path (the user
\* message then carries voice_metadata, the assistant message voice_input).
\* The content of an entry (text, transcript, metadata values) is left out.
Msg(t, v) == [type |-> t, voice |-> v]

RemoveAt(s, i) == [j \in 1..(Len(s) - 1) |-> IF j < i THEN s[j] ELSE s[j + 1]]

IsPrefix(s, t) == Len(s) <= Len(t) /\ SubSeq(t, 1, Len(s)) = s

\* useEffect(() => { if (voiceError) setError(voiceError) }, [voiceError])
\* and useEffect(() => { window.deepgramResult = handleVoiceProcessingResult;
\* ... }, [sessionId, currentLocation]).  The effects are passive: the
\* render that follows a change of their dependencies schedules them, and
\* they run in a task of their own or, at the latest, when React renders
\* again; the setError of the first is then queued after the setters of the
\* handler that caused the render.  Until the second has run,
\* window.deepgramResult is the handler of an earlier render and reads the
\* sessionId of that render.

\* The banner after the render that ends a task whose handlers left the
\* banner at banner.
Rendered(banner) == IF effectDue # "no" THEN effectDue ELSE banner

\* The effect that render schedules when the task left the hook error at
\* newVoiceError, a fixed string: two strings of one kind are equal.
Scheduled(newVoiceError) ==
    IF mounted /\ newVoiceError # voiceError /\ newVoiceError # "none"
    THEN newVoiceError ELSE "no"

\* The same after a setError whose string embeds error.message (recorder,
\* stop and processing errors): a second error of the same kind has the
\* same string, and no effect is scheduled, or another message, and the
\* effect is scheduled.
ScheduledAny(newVoiceError) ==
    {Scheduled(newVoiceError)}
      \cup (IF mounted /\ newVoiceError = voiceError THEN {newVoiceError}
            ELSE {})

\* The scheduled effect on [voiceError] runs and copies the hook error to
\* the banner.
VoiceErrorEffect ==
    /\ error' = Rendered(error)
    /\ effectDue' = "no"

\* The scheduled effect on [sessionId, currentLocation] runs: its cleanup
\* deletes window.deepgramResult and the handler of the last render, which
\* reads the sessionId of that render, is installed.
DeepgramResultEffect ==
    deepgramResult' = sessionId

\* The passive effects React has scheduled run in a task of their own, in
\* the order of their declaration.
PassiveEffects ==
    /\ mounted
    /\ effectDue # "no" \/ deepgramResult # sessionId
    /\ VoiceErrorEffect
    /\ DeepgramResultEffect
    /\ UNCHANGED <<hookVars, platVars, viewRest, histVars>>

\* Backend payloads.  location_info says whether the body has a
\* location_info object, location is its current_location ("none" when the
\* object names none).  An unsuccessful body is either bare or carries
\* every field; a body that reports a location change names the new
\* location, and one that reports none names the default location or no
\* location.
BarePayload(p) ==
    p.session_id = 0 /\ ~p.location_changed /\ p.weather = 0
FullPayload(p) ==
    p.session_id = 2 /\ p.location_changed /\ p.location = "Mumbai"
                     /\ p.weather = 1
LocationInfo(p) ==
    /\ ~p.location_info => (~p.location_changed /\ p.location = "none")
    /\ p.location_changed => p.location # "none"
    /\ (p.location_info /\ ~p.location_changed)
         => p.location \in {"none", "Tokyo"}

\* query_intelligence of a payload: absent ("none"), carrying a
\* classification ("classified") or carrying none ("unclassified").
QueryIntelligence == {"none", "classified", "unclassified"}

\* A chat response body; success may be false or absent.
ChatResponses ==
    { p \in [success : BOOLEAN, session_id : {0} \cup SessionIds,
             location_info : BOOLEAN, location_changed : BOOLEAN,
             location : Locations \cup {"none"},
             weather : {0} \cup Weathers,
             query_intelligence : QueryIntelligence] :
        /\ LocationInfo(p)
        /\ ~p.success => (BarePayload(p) \/ FullPayload(p)) }

\* A voice result whose top-level success flag is true (the hook forwards
\* nothing else); chat_success is voiceResult.chat_response.success.
VoiceResults ==
    { p \in [success : {TRUE}, chat_success : BOOLEAN,
             confidence : Confidences,
             query_intelligence : QueryIntelligence,
             session_id : {0} \cup SessionIds,
             location_info : BOOLEAN, location_changed : BOOLEAN,
             location : Locations \cup {"none"},
             weather : {0} \cup Weathers] :
        /\ LocationInfo(p)
        /\ ~p.chat_success => (BarePayload(p) \/ FullPayload(p)) }

\* The part of the view a response handler reads and writes, with the
\* sessionId the installed window.deepgramResult reads; threw says that the
\* handler ended by throwing, after the setters it had called, and
\* unrenderable that it appended a message whose MessageBubble throws.
View == [messages |-> messages, sessionId |-> sessionId,
         currentLocation |-> currentLocation,
         currentWeather |-> currentWeather, error |-> error,
         deepgramResult |-> deepgramResult,
         threw |-> FALSE, unrenderable |-> FALSE]

\* The assistant message built for a response has a location: that of
\* location_info when the body has one, else the handler's currentLocation.
\* MessageBubble renders query_intelligence.classification.query_type of
\* such a message and throws a TypeError when the classification is absent.
Located(response) ==
    response.location_info => response.location # "none"
Unrenderable(response) ==
    response.query_intelligence = "unclassified" /\ Located(response)

\* ------------------------------------------------------ ChatInterface
\* processIntelligentChatResponse storing response.session_id whenever it
\* differs from the handler's sessionId, without testing that it is present.
ProcessResponseStoresAbsentId(response, isVoiceInput, closureSid, v) ==
    IF response.success
    THEN [v EXCEPT
            !.sessionId = IF response.session_id # closureSid
                          THEN response.session_id ELSE @,
            !.currentLocation = IF response.location_changed
                                THEN response.location ELSE @,
            !.messages = @ \o (IF response.location_changed
                               THEN <<Msg("location_change", FALSE)>>
                               ELSE <<>>)
                           \o <<Msg("assistant", isVoiceInput)>>,
            !.currentWeather = IF response.weather # 0
                               THEN response.weather ELSE @,
            !.threw = /\ isVoiceInput
                      /\ response.query_intelligence = "unclassified",
            !.unrenderable = Unrenderable(response)]
    ELSE v

\* processIntelligentChatResponse announcing a location change without
\* calling setCurrentLocation.
ProcessResponseKeepsLocation(response, isVoiceInput, closureSid, v) ==
    IF response.success
    THEN [v EXCEPT
            !.sessionId = IF response.session_id # 0
                             /\ response.session_id # closureSid
                          THEN response.session_id ELSE @,
            !.messages = @ \o (IF response.location_changed
                               THEN <<Msg("location_change", FALSE)>>
                               ELSE <<>>)
                           \o <<Msg("assistant", isVoiceInput)>>,
            !.currentWeather = IF response.weather # 0
                               THEN response.weather ELSE @,
            !.threw = /\ isVoiceInput
                      /\ response.query_intelligence = "unclassified",
            !.unrenderable = Unrenderable(response)]
    ELSE v

\* processIntelligentChatResponse without the test of response.success.
ProcessResponseIgnoresSuccess(response, isVoiceInput, closureSid, v) ==
    [v EXCEPT
        !.sessionId = IF response.session_id # 0
                         /\ response.session_id # closureSid
                      THEN response.session_id ELSE @,
        !.currentLocation = IF response.location_changed
                            THEN response.location ELSE @,
        !.messages = @ \o (IF response.location_changed
                           THEN <<Msg("location_change", FALSE)>>
                           ELSE <<>>)
                       \o <<Msg("assistant", isVoiceInput)>>,
        !.currentWeather = IF response.weather # 0
                           THEN response.weather ELSE @,
        !.threw = /\ isVoiceInput
                  /\ response.query_intelligence = "unclassified",
        !.unrenderable = Unrenderable(response)]

\* processIntelligentChatResponse(response, isVoiceInput); closureSid is the
\* sessionId of the render that created the calling handler.  The assistant
\* message keeps response.query_intelligence, which MessageBubble reads
\* when the message has a location.  For a voice input the last statement
\* of the handler reads query_intelligence.classification.query_type
\* whatever the location is, and throws when the classification is absent.
ProcessIntelligentChatResponse(response, isVoiceInput, closureSid, v) ==
    IF response.success
    THEN [v EXCEPT
            !.sessionId = IF response.session_id # 0
                             /\ response.session_id # closureSid
                          THEN response.session_id ELSE @,
            !.currentLocation = IF response.location_changed
                                THEN response.location ELSE @,
            !.messages = @ \o (IF response.location_changed
                               THEN <<Msg("location_change", FALSE)>>
                               ELSE <<>>)
                           \o <<Msg("assistant", isVoiceInput)>>,
            !.currentWeather = IF response.weather # 0
                               THEN response.weather ELSE @,
            !.threw = /\ isVoiceInput
                      /\ response.query_intelligence = "unclassified",
            !.unrenderable = Unrenderable(response)]
    ELSE v

\* handleVoiceProcessingResult refusing a transcription whose confidence is
\* below 0.7.
HandleVoiceRejectsLowConfidence(voiceResult, v) ==
    IF ~voiceResult.success \/ voiceResult.confidence < 70
    THEN [v EXCEPT !.error = "voice"]
    ELSE ProcessIntelligentChatResponse(
             [success |-> voiceResult.chat_success,
              session_id |-> voiceResult.session_id,
              location_info |-> voiceResult.location_info,
              location_changed |-> voiceResult.location_changed,
              location |-> voiceResult.location,
              weather |-> voiceResult.weather,
              query_intelligence |-> voiceResult.query_intelligence],
             TRUE, v.deepgramResult,
             [v EXCEPT !.messages = Append(@, Msg("user", TRUE))])

\* handleVoiceProcessingResult(voiceResult), installed as window.deepgramResult
\* by the effect on [sessionId, currentLocation]: the handler called is the
\* one that effect installed last, and the sessionId it compares with is
\* v.deepgramResult.  A confidence below 0.7 only writes a console warning.
HandleVoiceProcessingResult(voiceResult, v) ==
    IF ~voiceResult.success
    THEN [v EXCEPT !.error = "voice"]
    ELSE ProcessIntelligentChatResponse(
             [success |-> voiceResult.chat_success,
              session_id |-> voiceResult.session_id,
              location_info |-> voiceResult.location_info,
              location_changed |-> voiceResult.location_changed,
              location |-> voiceResult.location,
              weather |-> voiceResult.weather,
              query_intelligence |-> voiceResult.query_intelligence],
             TRUE, v.deepgramResult,
             [v EXCEPT !.messages = Append(@, Msg("user", TRUE))])

\* handleSendMessage() from the send button or the Enter key, up to the
\* await of chatAPI.sendMessage; text is inputText.trim().  The function
\* returns at once on an empty text and tests nothing else: the isDisabled
\* props of the input and of the buttons are not Chakra UI 3 props and
\* disable nothing.
HandleSendMessage(text) ==
    IF text = "" THEN mounted /\ UNCHANGED vars ELSE
    /\ mounted
    /\ Attempts < MaxAttempts
    /\ isLoading' = TRUE
    /\ error' = Rendered("none")
    /\ deepgramResult' = sessionId
    /\ effectDue' = "no"
    /\ messages' = Append(messages, Msg("user", FALSE))
    /\ chatReqs' = Append(chatReqs, [session_id |-> sessionId])
    /\ sends' = sends + 1
    /\ UNCHANGED histVars
    /\ UNCHANGED <<hookVars, platVars, mounted, crashed, currentWeather,
                   sessionId, currentLocation, initData>>

\* chatAPI.sendMessage resolved: processIntelligentChatResponse, then
\* finally, then the render of the new log, which unmounts the root when a
\* message cannot be rendered.  v is the view the handler leaves.
ChatResolvedLeaving(i, v) ==
    /\ mounted
    /\ messages' = v.messages
    /\ sessionId' = v.sessionId
    /\ currentLocation' = v.currentLocation
    /\ currentWeather' = v.currentWeather
    /\ mounted' = ~v.unrenderable
    /\ crashed' = v.unrenderable
    /\ isLoading' = FALSE
    /\ error' = Rendered(error)
    /\ deepgramResult' = sessionId
    /\ effectDue' = "no"
    /\ chatReqs' = RemoveAt(chatReqs, i)
    /\ UNCHANGED histVars
    /\ UNCHANGED <<hookVars, platVars, initData, sends>>

\* The view the handler that sent request i leaves when it is answered by
\* response.
ChatOutcome(i, response) ==
    ProcessIntelligentChatResponse(response, FALSE, chatReqs[i].session_id,
                                   View)

ChatResolved(i, response) ==
    ChatResolvedLeaving(i, ChatOutcome(i, response))

\* chatAPI.sendMessage resolved after the root was unmounted: the setters
\* of the handler are ignored.
ChatResolvedUnmounted(i) ==
    /\ crashed
    /\ chatReqs' = RemoveAt(chatReqs, i)
    /\ UNCHANGED histVars
    /\ UNCHANGED <<hookVars, platVars, mounted, crashed, messages, isLoading,
                   currentWeather, sessionId, currentLocation, initData,
                   sends, error, effectDue, deepgramResult>>

\* chatAPI.sendMessage rejected: the catch block without the finally block.
ChatRejectedKeepsLoading(i) ==
    /\ mounted
    /\ error' = Rendered("chat")
    /\ deepgramResult' = sessionId
    /\ effectDue' = "no"
    /\ messages' = Append(messages, Msg("error", FALSE))
    /\ chatReqs' = RemoveAt(chatReqs, i)
    /\ UNCHANGED histVars
    /\ UNCHANGED <<hookVars, platVars, mounted, crashed, isLoading,
                   currentWeather, sessionId, currentLocation, initData,
                   sends>>

\* chatAPI.sendMessage rejected: the catch block, then finally.
ChatRejected(i) ==
    /\ mounted
    /\ error' = Rendered("chat")
    /\ deepgramResult' = sessionId
    /\ effectDue' = "no"
    /\ messages' = Append(messages, Msg("error", FALSE))
    /\ isLoading' = FALSE
    /\ chatReqs' = RemoveAt(chatReqs, i)
    /\ UNCHANGED histVars
    /\ UNCHANGED <<hookVars, platVars, mounted, crashed, currentWeather,
                   sessionId, currentLocation, initData, sends>>

\* chatAPI.sendMessage rejected after the root was unmounted.
ChatRejectedUnmounted(i) ==
    /\ crashed
    /\ chatReqs' = RemoveAt(chatReqs, i)
    /\ UNCHANGED histVars
    /\ UNCHANGED <<hookVars, platVars, mounted, crashed, messages, isLoading,
                   currentWeather, sessionId, currentLocation, initData,
                   sends, error, effectDue, deepgramResult>>

\* loadInitialData after weatherAPI.getCurrentWeather resolved: the log is
\* replaced by a new welcome message, whatever it holds.
LoadInitialDataResolved ==
    /\ mounted /\ initData > 0
    /\ \E w \in Weathers :
          currentWeather' = w
    /\ messages' = <<Msg("system", FALSE)>>
    /\ initData' = initData - 1
    /\ error' = Rendered(error)
    /\ deepgramResult' = sessionId
    /\ effectDue' = "no"
    /\ UNCHANGED <<apiVars, histVars>>
    /\ UNCHANGED <<hookVars, platVars, mounted, crashed, isLoading,
                   sessionId, currentLocation, chatReqs, sends>>

\* loadInitialData after weatherAPI.getCurrentWeather rejected.
LoadInitialDataRejected ==
    /\ mounted /\ initData > 0
    /\ error' = Rendered("init")
    /\ deepgramResult' = sessionId
    /\ effectDue' = "no"
    /\ initData' = initData - 1
    /\ UNCHANGED <<apiVars, histVars>>
    /\ UNCHANGED <<hookVars, platVars, mounted, crashed, messages, isLoading,
                   currentWeather, sessionId, currentLocation, chatReqs, sends>>

\* weatherAPI.getCurrentWeather settled after the root was unmounted: the
\* setters of loadInitialData are ignored.
LoadInitialDataUnmounted ==
    /\ crashed /\ initData > 0
    /\ initData' = initData - 1
    /\ UNCHANGED <<apiVars, histVars>>
    /\ UNCHANGED <<hookVars, platVars, mounted, crashed, messages, isLoading,
                   currentWeather, sessionId, currentLocation, chatReqs,
                   sends, error, effectDue, deepgramResult>>

\* ------------------------------------------- useDeepgramVoiceRecording
\* The catch block of startRecording with one message for every failure.
StartErrorAlwaysGeneric(name) ==
    "startfailed"

\* The error string selected by the catch block of startRecording.
StartErrorMessage(name) ==
    CASE name = "NotAllowedError"   -> "denied"
      [] name = "NotFoundError"     -> "notfound"
      [] name = "NotSupportedError" -> "notsupported"
      [] OTHER                      -> "startfailed"

GetUserMediaErrors == {"NotAllowedError", "NotFoundError", "NotSupportedError",
                       "NotReadableError"}
\* What new MediaRecorder(stream, options) throws when it throws.
RecorderConstructorErrors == {"NotSupportedError", "UnknownError"}
\* How mediaRecorder.start(100) ends.
RecorderStartOutcomes == {"ok", "UnknownError", "NotSupportedError"}

\* track.stop() on every track of stream s, called by the hook, with rs the
\* recorder states otherwise.  A recorder still recording that stream loses
\* its input: the platform inactivates it at once, or leaves it reading
\* "recording" and inactivates it in a later task, or never.
TracksStopped(s, rs) ==
    IF s # 0 /\ s \in streamLive /\ rs[s] = "recording"
    THEN {rs, [rs EXCEPT ![s] = "stopping"]}
    ELSE {rs}

\* startRecording() without its first statement.
StartRecordingUnguarded ==
    /\ Attempts < MaxAttempts
    /\ voiceError' = "none"
    /\ error' = Rendered(error)
    /\ deepgramResult' = sessionId
    /\ effectDue' = "no"
    /\ pendingStarts' = pendingStarts + 1
    /\ UNCHANGED <<isSupported, isRecording, isProcessing,
                   mediaRecorderRef, audioChunksRef, streamRef,
                   granted, rstate, streamLive, voiceReq, viewRest,
                   histVars>>

\* startRecording() up to the await of getUserMedia.  A call that fails the
\* guard on line 40 returns without effect.
StartRecording ==
    IF ~isSupported \/ isRecording \/ isProcessing
    THEN UNCHANGED vars
    ELSE /\ Attempts < MaxAttempts
         /\ voiceError' = "none"
         /\ error' = Rendered(error)
         /\ deepgramResult' = sessionId
         /\ effectDue' = "no"
         /\ pendingStarts' = pendingStarts + 1
         /\ UNCHANGED <<isSupported, isRecording, isProcessing,
                        mediaRecorderRef, audioChunksRef, streamRef,
                        granted, rstate, streamLive, voiceReq, viewRest,
                        histVars>>

\* getUserMedia resolved and the recorder was constructed: the rest of the
\* try block.  start(100) either succeeds or throws, which runs the catch
\* block.  A start that throws leaves the recorder inactive; when it throws
\* because the tracks of the granted stream have ended meanwhile, the
\* recorder may also read "recording" without ever having started.  While
\* another stream of the device is open, start(100) may also return on a
\* stream that has ended.
GetUserMediaResolved(outcome) ==
    LET id == granted + 1
        err == IF outcome = "ok" THEN voiceError
               ELSE StartErrorMessage(outcome) IN
    /\ ~crashed
    /\ pendingStarts > 0
    /\ pendingStarts' = pendingStarts - 1
    /\ granted' = id
    /\ streamRef' = id
    /\ mediaRecorderRef' = id
    /\ audioChunksRef' = <<>>
    /\ IF outcome = "ok"
       THEN /\ \/ streamLive' = streamLive \cup {id}
               \/ streamLive # {} /\ streamLive' = streamLive
            /\ rstate' = [rstate EXCEPT ![id] = "recording"]
            /\ started' = started \cup {id}
       ELSE /\ \E ended \in BOOLEAN, reads \in {"inactive", "recording"} :
                 /\ reads = "recording" => ended
                 /\ streamLive' = IF ended THEN streamLive
                                  ELSE streamLive \cup {id}
                 /\ rstate' = [rstate EXCEPT ![id] = reads]
            /\ started' = started
    /\ isRecording' = (outcome = "ok")
    /\ voiceError' = err
    /\ error' = Rendered(error)
    /\ deepgramResult' = sessionId
    /\ effectDue' = Scheduled(err)
    /\ UNCHANGED <<stopCause, uncaught>>
    /\ UNCHANGED <<isSupported, isProcessing, voiceReq, viewRest>>

\* getUserMedia resolved and new MediaRecorder threw: streamRef holds the
\* granted stream (line 62), the statements after the constructor did not
\* run, so the recorder ref and the chunk buffer are those of the capture
\* before, and the catch block reports the error.  No recorder exists for
\* the stream; its tracks may have ended meanwhile.
RecorderNotConstructed(name) ==
    LET id == granted + 1 IN
    /\ ~crashed
    /\ pendingStarts > 0
    /\ pendingStarts' = pendingStarts - 1
    /\ granted' = id
    /\ streamRef' = id
    /\ \E ended \in BOOLEAN :
          streamLive' = IF ended THEN streamLive ELSE streamLive \cup {id}
    /\ isRecording' = FALSE
    /\ voiceError' = StartErrorMessage(name)
    /\ error' = Rendered(error)
    /\ deepgramResult' = sessionId
    /\ effectDue' = Scheduled(StartErrorMessage(name))
    /\ UNCHANGED histVars
    /\ UNCHANGED <<isSupported, isProcessing, mediaRecorderRef,
                   audioChunksRef, rstate, voiceReq, viewRest>>

\* getUserMedia resolved after the root was unmounted: the continuation
\* writes the refs and drives the browser as above (constructed says
\* whether new MediaRecorder returned), and its setters are ignored.
GetUserMediaResolvedUnmounted(outcome, constructed) ==
    LET id == granted + 1 IN
    /\ crashed
    /\ pendingStarts > 0
    /\ constructed \/ outcome # "ok"
    /\ pendingStarts' = pendingStarts - 1
    /\ granted' = id
    /\ streamRef' = id
    /\ mediaRecorderRef' = IF constructed THEN id ELSE mediaRecorderRef
    /\ audioChunksRef' = IF constructed THEN <<>> ELSE audioChunksRef
    /\ IF outcome = "ok"
       THEN /\ \/ streamLive' = streamLive \cup {id}
               \/ streamLive # {} /\ streamLive' = streamLive
            /\ rstate' = [rstate EXCEPT ![id] = "recording"]
            /\ started' = started \cup {id}
       ELSE /\ \E ended \in BOOLEAN, reads \in {"inactive", "recording"} :
                 /\ reads = "recording" => ended
                 /\ streamLive' = IF ended THEN streamLive
                                  ELSE streamLive \cup {id}
                 /\ rstate' = IF constructed
                              THEN [rstate EXCEPT ![id] = reads]
                              ELSE rstate
            /\ started' = started
    /\ UNCHANGED <<stopCause, uncaught>>
    /\ UNCHANGED <<isSupported, isRecording, isProcessing, voiceError,
                   voiceReq, viewVars>>

\* getUserMedia rejected: the catch block.
GetUserMediaRejected(name) ==
    /\ ~crashed
    /\ pendingStarts > 0
    /\ pendingStarts' = pendingStarts - 1
    /\ voiceError' = StartErrorMessage(name)
    /\ error' = Rendered(error)
    /\ deepgramResult' = sessionId
    /\ effectDue' = Scheduled(StartErrorMessage(name))
    /\ isRecording' = FALSE
    /\ UNCHANGED histVars
    /\ UNCHANGED <<isSupported, isProcessing, mediaRecorderRef, audioChunksRef,
                   streamRef, granted, rstate, streamLive, voiceReq, viewRest>>

\* getUserMedia rejected after the root was unmounted.
GetUserMediaRejectedUnmounted ==
    /\ crashed
    /\ pendingStarts > 0
    /\ pendingStarts' = pendingStarts - 1
    /\ UNCHANGED histVars
    /\ UNCHANGED <<hookVars, granted, rstate, streamLive, voiceReq, viewVars>>

\* mediaRecorder.ondataavailable for a timeslice of recorder r.
OnDataAvailable(r, size) ==
    /\ rstate[r] = "recording" /\ r \in started
    /\ Len(audioChunksRef) < MaxChunks
    /\ audioChunksRef' = IF size > 0 THEN Append(audioChunksRef, r)
                         ELSE audioChunksRef
    /\ UNCHANGED histVars
    /\ UNCHANGED <<isSupported, isRecording, isProcessing, voiceError,
                   mediaRecorderRef, streamRef, platVars, viewVars>>

\* onstop posting the assembled blob without testing its size.
OnStopSubmitsEmpty(r, final, err0) ==
    LET chunks == IF final THEN Append(audioChunksRef, r) ELSE audioChunksRef IN
    /\ isRecording' = FALSE
    /\ isProcessing' = TRUE
    /\ streamLive' = streamLive \ {streamRef}
    /\ streamRef' = 0
    /\ audioChunksRef' = chunks
    /\ voiceError' = (IF err0 = "unset" THEN voiceError ELSE err0)
    /\ error' = Rendered(error)
    /\ deepgramResult' = sessionId
    /\ effectDue' \in IF err0 = "unset" THEN {"no"}
                     ELSE ScheduledAny(err0)
    /\ voiceReq' = voiceReq \cup {r}
    /\ rstate' \in TracksStopped(streamRef, [rstate EXCEPT ![r] = "inactive"])
    /\ UNCHANGED <<isSupported, mediaRecorderRef, pendingStarts, granted,
                   viewRest>>

\* The task queued when recorder r is inactivated: ondataavailable with the
\* remaining data (final says whether it is non-empty), then onstop up to
\* the await of fetch in processAudioWithBackend.  err0 is the kind of the
\* error the task has set before onstop runs (onerror), "unset" when it has
\* set none.
OnStop(r, final, err0) ==
    LET chunks == IF final THEN Append(audioChunksRef, r) ELSE audioChunksRef
        err == IF chunks = <<>> THEN "empty"
               ELSE IF err0 = "unset" THEN voiceError ELSE err0 IN
    /\ isRecording' = FALSE
    /\ isProcessing' = (chunks # <<>>)
    /\ streamLive' = streamLive \ {streamRef}
    /\ streamRef' = 0
    /\ audioChunksRef' = chunks
    /\ voiceError' = err
    /\ error' = Rendered(error)
    /\ deepgramResult' = sessionId
    /\ effectDue' \in IF chunks # <<>> /\ err0 # "unset"
                     THEN ScheduledAny(err)
                     ELSE {Scheduled(err)}
    /\ voiceReq' = IF chunks = <<>> THEN voiceReq ELSE voiceReq \cup {r}
    /\ rstate' \in TracksStopped(streamRef, [rstate EXCEPT ![r] = "inactive"])
    /\ UNCHANGED <<isSupported, mediaRecorderRef, pendingStarts, granted,
                   viewRest>>

\* The same task after the root was unmounted: the tracks are stopped, the
\* blob is assembled and posted, and the setters are ignored.
OnStopUnmounted(r, final) ==
    LET chunks == IF final THEN Append(audioChunksRef, r)
                  ELSE audioChunksRef IN
    /\ streamLive' = streamLive \ {streamRef}
    /\ streamRef' = 0
    /\ audioChunksRef' = chunks
    /\ voiceReq' = IF chunks = <<>> THEN voiceReq ELSE voiceReq \cup {r}
    /\ rstate' \in TracksStopped(streamRef, [rstate EXCEPT ![r] = "inactive"])
    /\ UNCHANGED <<isSupported, isRecording, isProcessing, voiceError,
                   mediaRecorderRef, pendingStarts, granted, viewVars>>

\* The stop task of a recorder inactivated by stop() or by its tracks
\* ending, the tracks the hook stopped itself included.  A recorder that
\* never started has no data to deliver.
RecorderStopped(r, final) ==
    /\ ~crashed
    /\ \/ rstate[r] = "stopping"
       \/ rstate[r] = "recording" /\ r \in started /\ r \notin streamLive
    /\ final => r \in started
    /\ OnStop(r, final, "unset")
    /\ stopCause' = [stopCause EXCEPT ![r] = "no"]
    /\ UNCHANGED <<uncaught, started>>

\* The stop task after the root was unmounted.
RecorderStoppedUnmounted(r, final) ==
    /\ crashed
    /\ \/ rstate[r] = "stopping"
       \/ rstate[r] = "recording" /\ r \in started /\ r \notin streamLive
    /\ final => r \in started
    /\ OnStopUnmounted(r, final)
    /\ stopCause' = [stopCause EXCEPT ![r] = "no"]
    /\ UNCHANGED <<uncaught, started>>

\* Every track of the stream recorder r records has ended, by the device
\* or by a track.stop() of the hook: the stream is no longer live.  The
\* platform inactivates the recorder, or, when the device ends the tracks,
\* may leave it reading "recording" with no stop task queued.
TracksEnded(r) ==
    /\ rstate[r] = "recording" /\ r \in started
    /\ streamLive' = streamLive \ {r}
    /\ IF r \in streamLive
       THEN \/ /\ rstate' = [rstate EXCEPT ![r] = "stopping"]
               /\ stopCause' = [stopCause EXCEPT ![r] = "tracks"]
            \/ UNCHANGED <<rstate, stopCause>>
       ELSE /\ rstate' = [rstate EXCEPT ![r] = "stopping"]
            /\ UNCHANGED stopCause
    /\ UNCHANGED <<hookVars, pendingStarts, granted, voiceReq, viewVars,
                   uncaught, started>>

\* The recorder fails while recording: mediaRecorder.onerror.  The platform
\* inactivates the recorder; either it fires dataavailable and stop in the
\* same task (withStop) or it fires the error event alone.
RecorderError(r, withStop, final) ==
    /\ ~crashed
    /\ rstate[r] = "recording" /\ r \in started
    /\ UNCHANGED histVars
    /\ IF withStop
       THEN OnStop(r, final, "recorder")
       ELSE /\ voiceError' = "recorder"
            /\ error' = Rendered(error)
            /\ deepgramResult' = sessionId
            /\ effectDue' \in ScheduledAny("recorder")
            /\ isRecording' = FALSE
            /\ isProcessing' = FALSE
            /\ rstate' = [rstate EXCEPT ![r] = "inactive"]
            /\ UNCHANGED <<isSupported, mediaRecorderRef, audioChunksRef,
                           streamRef, pendingStarts, granted, streamLive,
                           voiceReq, viewRest>>

\* mediaRecorder.onerror after the root was unmounted.
RecorderErrorUnmounted(r, withStop, final) ==
    /\ crashed
    /\ rstate[r] = "recording" /\ r \in started
    /\ UNCHANGED histVars
    /\ IF withStop
       THEN OnStopUnmounted(r, final)
       ELSE /\ rstate' = [rstate EXCEPT ![r] = "inactive"]
            /\ UNCHANGED <<hookVars, pendingStarts, granted, streamLive,
                           voiceReq, viewVars>>

\* stopRecording().  stop() on a recording recorder inactivates it; on a
\* recorder that is already inactive it returns or throws InvalidStateError
\* (throws), depending on the browser.
StopRecording(throws) ==
    IF ~isRecording \/ mediaRecorderRef = 0
    THEN UNCHANGED vars
    ELSE IF rstate[mediaRecorderRef] = "recording"
    THEN /\ rstate' = [rstate EXCEPT ![mediaRecorderRef] = "stopping"]
         /\ stopCause' = [stopCause EXCEPT ![mediaRecorderRef] = "stop"]
         /\ UNCHANGED <<hookVars, pendingStarts, granted, streamLive, voiceReq,
                        viewVars, uncaught, started>>
    ELSE IF throws
    THEN /\ voiceError' = "stop"
         /\ error' = Rendered(error)
         /\ deepgramResult' = sessionId
         /\ effectDue' \in ScheduledAny("stop")
         /\ isRecording' = FALSE
         /\ isProcessing' = FALSE
         /\ UNCHANGED <<isSupported, mediaRecorderRef, audioChunksRef,
                        streamRef, platVars, viewRest, histVars>>
    ELSE UNCHANGED vars

\* cancelRecording().  When stop() throws the call is abandoned before any
\* state is written.  The call ends a recording either by its stop() or by
\* its track.stop() on the stream a recorder still records.  ChatInterface
\* does not call it, so no effect on [voiceError] is involved.
CancelRecording(throws) ==
    LET callsStop == mediaRecorderRef # 0 /\ isRecording
        active == callsStop /\ rstate[mediaRecorderRef] = "recording"
        cut == streamRef # 0 /\ streamRef \in streamLive
                 /\ rstate[streamRef] = "recording" IN
    IF callsStop /\ ~active /\ throws
    THEN /\ uncaught' = TRUE
         /\ UNCHANGED <<hookVars, platVars, viewVars, stopCause, started>>
    ELSE /\ rstate' \in TracksStopped(streamRef,
                         IF active
                         THEN [rstate EXCEPT ![mediaRecorderRef] = "stopping"]
                         ELSE rstate)
         /\ stopCause' = [q \in RecIds |->
                           IF \/ active /\ q = mediaRecorderRef
                              \/ cut /\ q = streamRef
                           THEN "cancel" ELSE stopCause[q]]
         /\ UNCHANGED <<uncaught, started>>
         /\ streamLive' = streamLive \ {streamRef}
         /\ streamRef' = 0
         /\ isRecording' = FALSE
         /\ isProcessing' = FALSE
         /\ voiceError' = "none"
         /\ audioChunksRef' = <<>>
         /\ UNCHANGED <<isSupported, mediaRecorderRef, pendingStarts, granted,
                        voiceReq, viewVars>>

\* resetTranscript(): the transcript and the confidence, which the model
\* leaves out, and the hook error are cleared.  ChatInterface does not
\* call it.
ResetTranscript ==
    /\ voiceError' = "none"
    /\ UNCHANGED <<isSupported, isRecording, isProcessing, mediaRecorderRef,
                   audioChunksRef, streamRef, platVars, viewVars, histVars>>

\* The multipart form processAudioWithBackend posts for every blob: the
\* audio under a fixed filename and the language.  The hook receives nothing
\* from the view, so the form is the same whatever the view's session is.
ProcessAudioFormData == [audio |-> "recording.webm", language |-> "ja"]

\* processAudioWithBackend posting the blob again after a failure.
VoiceFailedRetries(r) ==
    /\ ~crashed
    /\ r \in voiceReq
    /\ voiceReq' = voiceReq
    /\ voiceError' = "processing"
    /\ error' = Rendered(error)
    /\ deepgramResult' = sessionId
    /\ effectDue' \in ScheduledAny("processing")
    /\ isProcessing' = TRUE
    /\ UNCHANGED histVars
    /\ UNCHANGED <<isSupported, isRecording, mediaRecorderRef, audioChunksRef,
                   streamRef, pendingStarts, granted, rstate, streamLive,
                   viewRest>>

\* processAudioWithBackend after the fetch settled without a usable result
\* (network failure, HTTP error status, success flag false): catch, finally.
VoiceFailed(r) ==
    /\ ~crashed
    /\ r \in voiceReq
    /\ voiceReq' = voiceReq \ {r}
    /\ voiceError' = "processing"
    /\ error' = Rendered(error)
    /\ deepgramResult' = sessionId
    /\ effectDue' \in ScheduledAny("processing")
    /\ isProcessing' = FALSE
    /\ UNCHANGED histVars
    /\ UNCHANGED <<isSupported, isRecording, mediaRecorderRef, audioChunksRef,
                   streamRef, pendingStarts, granted, rstate, streamLive,
                   viewRest>>

\* The same after the root was unmounted.
VoiceFailedUnmounted(r) ==
    /\ crashed
    /\ r \in voiceReq
    /\ voiceReq' = voiceReq \ {r}
    /\ UNCHANGED histVars
    /\ UNCHANGED <<hookVars, pendingStarts, granted, rstate, streamLive,
                   viewVars>>

\* processAudioWithBackend after the fetch returned result.success: the
\* result is handed to window.deepgramResult when the view installed it.
\* When that handler throws, the catch block sets the hook error.  The
\* render of the new log follows, which unmounts the root when a message
\* cannot be rendered.  v is the view the handler leaves.
VoiceSucceededLeaving(r, v) ==
    /\ ~crashed
    /\ r \in voiceReq
    /\ voiceReq' = voiceReq \ {r}
    /\ messages' = v.messages
    /\ sessionId' = v.sessionId
    /\ currentLocation' = v.currentLocation
    /\ currentWeather' = v.currentWeather
    /\ voiceError' = (IF v.threw THEN "processing" ELSE voiceError)
    /\ error' = Rendered(v.error)
    /\ deepgramResult' = sessionId
    /\ effectDue' \in IF v.threw /\ ~v.unrenderable
                     THEN ScheduledAny("processing")
                     ELSE {"no"}
    /\ mounted' = (mounted /\ ~v.unrenderable)
    /\ crashed' = v.unrenderable
    /\ isProcessing' = FALSE
    /\ UNCHANGED histVars
    /\ UNCHANGED <<isSupported, isRecording, mediaRecorderRef,
                   audioChunksRef, streamRef, pendingStarts, granted, rstate,
                   streamLive, isLoading, initData, chatReqs, sends>>

\* The view window.deepgramResult leaves when it is handed result; the view
\* is left as it is when no handler is installed.
VoiceOutcome(result) ==
    IF mounted THEN HandleVoiceProcessingResult(result, View) ELSE View

VoiceSucceeded(r, result) ==
    VoiceSucceededLeaving(r, VoiceOutcome(result))

\* The same after the root was unmounted: the cleanup of the effect that
\* installed window.deepgramResult has deleted it.
VoiceSucceededUnmounted(r) ==
    /\ crashed
    /\ r \in voiceReq
    /\ voiceReq' = voiceReq \ {r}
    /\ UNCHANGED histVars
    /\ UNCHANGED <<hookVars, pendingStarts, granted, rstate, streamLive,
                   viewVars>>

\* handleVoiceToggle() from the voice button, which is rendered when
\* isSupported.
HandleVoiceToggle(throws) ==
    /\ mounted /\ isSupported
    /\ IF isRecording THEN StopRecording(throws)
       ELSE IF isProcessing THEN UNCHANGED vars
       ELSE StartRecording

\* ------------------------------------------------------------ apiUtils
\* A MIME type is the sequence of its parts; a Blob is its size in bytes,
\* its type and its bytes (data), of which validateAudioBlob reads none;
\* NoBlob is a null or undefined argument.
AudioTypes ==
    { <<"audio/", "webm">>, <<"audio/", "webm", ";codecs=opus">>,
      <<"audio/", "wav">>, <<"audio/", "ogg">>, <<"audio/", "mpeg">>, <<>> }

MinSize == 1024
MaxSize == 500 * 1024 * 1024
MiB == 1024 * 1024

AudioSizes ==
    { 0, 1, MinSize - 1, MinSize, MaxSize - 1, MaxSize, MaxSize + 1,
      MaxSize + MiB, 2147483647 }

AudioData == {"speech", "noise"}

NoBlob == [present |-> FALSE, size |-> 0, type |-> <<>>, data |-> ""]
AudioBlobs ==
    {NoBlob} \cup [present : {TRUE}, size : AudioSizes, type : AudioTypes,
                   data : AudioData]

NoValidation == [called |-> FALSE]

\* String.prototype.includes on sequences of parts.
Includes(hay, needle) ==
    \E k \in 0..(Len(hay) - Len(needle)) :
        SubSeq(hay, k + 1, k + Len(needle)) = needle

SupportedTypes ==
    { <<"audio/", "webm">>, <<"audio/", "wav">>, <<"audio/", "mp3">>,
      <<"audio/", "ogg">> }

\* (size / 1024 / 1024).toFixed(1), in tenths of a MB: the quotient is
\* exact and toFixed rounds it to the nearest tenth, a tie upwards.
SizeInTenthsOfMB(size) ==
    10 * (size \div MiB) + (10 * (size % MiB) + MiB \div 2) \div MiB

\* validateAudioBlob rejecting a blob of exactly the maximal size.
ValidateRejectsAtLimit(blob) ==
    IF ~blob.present \/ blob.size = 0
    THEN [called |-> TRUE, valid |-> FALSE, warnings |-> <<>>,
          errors |-> <<[kind |-> "empty", mb10 |-> 0]>>]
    ELSE LET tooLarge == blob.size >= MaxSize
             small == blob.size < MinSize
             odd == ~\E t \in SupportedTypes : Includes(blob.type, t) IN
         [called |-> TRUE, valid |-> ~tooLarge,
          warnings |-> (IF small THEN <<"very_small">> ELSE <<>>)
                       \o (IF odd THEN <<"type_not_optimal">> ELSE <<>>),
          errors |-> IF tooLarge
                     THEN <<[kind |-> "too_large",
                             mb10 |-> SizeInTenthsOfMB(blob.size)]>>
                     ELSE <<>>]

\* validateAudioBlob without the warning for a blob under 1 KB.
ValidateWithoutSmallWarning(blob) ==
    IF ~blob.present \/ blob.size = 0
    THEN [called |-> TRUE, valid |-> FALSE, warnings |-> <<>>,
          errors |-> <<[kind |-> "empty", mb10 |-> 0]>>]
    ELSE LET tooLarge == blob.size > MaxSize
             odd == ~\E t \in SupportedTypes : Includes(blob.type, t) IN
         [called |-> TRUE, valid |-> ~tooLarge,
          warnings |-> IF odd THEN <<"type_not_optimal">> ELSE <<>>,
          errors |-> IF tooLarge
                     THEN <<[kind |-> "too_large",
                             mb10 |-> SizeInTenthsOfMB(blob.size)]>>
                     ELSE <<>>]

\* validateAudioBlob treating an unlisted audio type as an error.
ValidateRejectsOddType(blob) ==
    IF ~blob.present \/ blob.size = 0
    THEN [called |-> TRUE, valid |-> FALSE, warnings |-> <<>>,
          errors |-> <<[kind |-> "empty", mb10 |-> 0]>>]
    ELSE LET tooLarge == blob.size > MaxSize
             small == blob.size < MinSize
             odd == ~\E t \in SupportedTypes : Includes(blob.type, t) IN
         [called |-> TRUE, valid |-> ~tooLarge /\ ~odd,
          warnings |-> IF small THEN <<"very_small">> ELSE <<>>,
          errors |-> (IF tooLarge
                      THEN <<[kind |-> "too_large",
                              mb10 |-> SizeInTenthsOfMB(blob.size)]>>
                      ELSE <<>>)
                     \o (IF odd THEN <<[kind |-> "type", mb10 |-> 0]>>
                         ELSE <<>>)]

\* validateAudioBlob without its test for a missing or empty blob (a missing
\* blob counted as one of size 0).
ValidateSkipsEmptyCheck(blob) ==
    LET tooLarge == blob.size > MaxSize
        small == blob.size < MinSize
        odd == ~\E t \in SupportedTypes : Includes(blob.type, t) IN
    [called |-> TRUE, valid |-> ~tooLarge,
     warnings |-> (IF small THEN <<"very_small">> ELSE <<>>)
                  \o (IF odd THEN <<"type_not_optimal">> ELSE <<>>),
     errors |-> IF tooLarge
                THEN <<[kind |-> "too_large",
                        mb10 |-> SizeInTenthsOfMB(blob.size)]>>
                ELSE <<>>]

\* apiUtils.validateAudioBlob(audioBlob): the result object.  An error is
\* its kind and, for a blob that is too large, the size its text quotes.
ValidateAudioBlob(blob) ==
    IF ~blob.present \/ blob.size = 0
    THEN [called |-> TRUE, valid |-> FALSE, warnings |-> <<>>,
          errors |-> <<[kind |-> "empty", mb10 |-> 0]>>]
    ELSE LET tooLarge == blob.size > MaxSize
             small == blob.size < MinSize
             odd == ~\E t \in SupportedTypes : Includes(blob.type, t) IN
         [called |-> TRUE, valid |-> ~tooLarge,
          warnings |-> (IF small THEN <<"very_small">> ELSE <<>>)
                       \o (IF odd THEN <<"type_not_optimal">> ELSE <<>>),
          errors |-> IF tooLarge
                     THEN <<[kind |-> "too_large",
                             mb10 |-> SizeInTenthsOfMB(blob.size)]>>
                     ELSE <<>>]

\* A caller validates the blob it holds.
ValidateCall ==
    /\ ~validation.called
    /\ validation' = ValidateAudioBlob(audioBlob)
    /\ UNCHANGED <<audioBlob, hookVars, platVars, viewVars, idVars, histVars>>

\* No apiUtils call was made.
InitApiState ==
    /\ audioBlob = NoBlob
    /\ validation = NoValidation

\* ---------------------------------------------------- message identifiers
\* The id a handler gives a message of the given type when Date.now()
\* reads t: Date.now() for a user or system message, Date.now() + 0.5 for a
\* location_change message, Date.now() + 1 for an assistant or error
\* message.  Ids are kept doubled, so that the half is an integer.
MessageId(type, t) ==
    CASE type \in {"user", "system"} -> 2 * t
      [] type = "location_change" -> 2 * t + 1
      [] type \in {"assistant", "error"} -> 2 * t + 2

\* The ids of the messages a handler adds to the first kept messages of
\* the log.  Every message is built with a reading of Date.now() of its
\* own; the readings of one handler do not decrease, and the first is not
\* before the last reading made so far.
StampAfter(kept) ==
    LET added == Len(messages') - kept IN
    \E reading \in [1..added -> now..MaxNow] :
        /\ \A k \in 1..(added - 1) : reading[k] <= reading[k + 1]
        /\ now' = IF added = 0 THEN now ELSE reading[added]
        /\ ids' = SubSeq(ids, 1, kept)
                    \o [k \in 1..added |->
                          MessageId(messages'[kept + k].type, reading[k])]

\* setMessages((prev) => [...prev, m]) extends the log.
Stamp == StampAfter(Len(messages))

\* No message was added yet, and the clock has reached the last reading the
\* model follows: the identifiers are not followed any further.
InitIdState ==
    /\ now = MaxNow
    /\ ids = <<>>

\* ------------------------------------------------------ specifications
\* The hook after its mount effect (checkSupport) and the browser at rest.
\* Where the browser has getUserMedia and no MediaRecorder, checkSupport
\* throws a ReferenceError on line 25 and the root is unmounted with the
\* state of the first render.
InitHookState ==
    /\ crashed \in BOOLEAN
    /\ isSupported \in (IF crashed THEN {TRUE} ELSE BOOLEAN)
    /\ isRecording = FALSE
    /\ isProcessing = FALSE
    /\ voiceError = IF isSupported THEN "none" ELSE "unsupported"
    /\ mediaRecorderRef = 0
    /\ audioChunksRef = <<>>
    /\ streamRef = 0
    /\ pendingStarts = 0
    /\ granted = 0
    /\ rstate = [r \in RecIds |-> "none"]
    /\ streamLive = {}
    /\ voiceReq = {}
    /\ stopCause = [r \in RecIds |-> "no"]
    /\ uncaught = FALSE
    /\ started = {}

\* ChatInterface after its first render; no mount effect of its own has
\* run.
InitViewState ==
    /\ messages = <<>>
    /\ isLoading = FALSE
    /\ currentWeather = 0
    /\ error = "none"
    /\ sessionId = 0
    /\ currentLocation = "Tokyo"
    /\ chatReqs = <<>>
    /\ sends = 0
    /\ deepgramResult = 0

\* The mounted application: ChatInterface using the hook, after the render
\* that follows the mount effects.  The error checkSupport set is not on
\* the banner yet: the effect on [voiceError] is scheduled.  The mount
\* effects run in the order of their declaration, that of the hook first:
\* when checkSupport throws, loadInitialData is not called.  Otherwise it
\* is called once, or twice where React runs the mount effects a second
\* time (StrictMode in the development build).
InitApp ==
    /\ InitHookState
    /\ InitViewState
    /\ mounted = ~crashed
    /\ effectDue = IF isSupported THEN "no" ELSE "unsupported"
    /\ initData \in (IF crashed THEN {0} ELSE {1, 2})
    /\ InitApiState

Init ==
    /\ InitApp
    /\ InitIdState

\* One event-loop task of each kind, over all its inputs.  None of them
\* calls apiUtils.
EffectsRun ==
    /\ PassiveEffects
    /\ UNCHANGED apiVars
    /\ UNCHANGED idVars
GetUserMediaResolves ==
    /\ \/ \E outcome \in RecorderStartOutcomes : GetUserMediaResolved(outcome)
       \/ \E name \in RecorderConstructorErrors : RecorderNotConstructed(name)
       \/ \E outcome \in RecorderStartOutcomes, constructed \in BOOLEAN :
             GetUserMediaResolvedUnmounted(outcome, constructed)
    /\ UNCHANGED apiVars
    /\ UNCHANGED idVars
GetUserMediaRejects ==
    /\ \/ \E name \in GetUserMediaErrors : GetUserMediaRejected(name)
       \/ GetUserMediaRejectedUnmounted
    /\ UNCHANGED apiVars
    /\ UNCHANGED idVars
DataAvailable ==
    /\ \E r \in RecIds, size \in 0..1 : OnDataAvailable(r, size)
    /\ UNCHANGED apiVars
    /\ UNCHANGED idVars
RecorderStops ==
    /\ \E r \in RecIds, final \in BOOLEAN :
          RecorderStopped(r, final) \/ RecorderStoppedUnmounted(r, final)
    /\ UNCHANGED apiVars
    /\ UNCHANGED idVars
TracksEnd ==
    /\ \E r \in RecIds : TracksEnded(r)
    /\ UNCHANGED apiVars
    /\ UNCHANGED idVars
RecorderErrors ==
    /\ \E r \in RecIds, withStop \in BOOLEAN, final \in BOOLEAN :
          \/ RecorderError(r, withStop, final)
          \/ RecorderErrorUnmounted(r, withStop, final)
    /\ UNCHANGED apiVars
    /\ UNCHANGED idVars
VoiceFails ==
    /\ \E r \in RecIds : VoiceFailed(r) \/ VoiceFailedUnmounted(r)
    /\ UNCHANGED apiVars
    /\ UNCHANGED idVars
\* An answered request, over every payload: payloads after which the
\* handler leaves the same view give the same step, which is taken once for
\* each view.
VoiceSucceeds ==
    /\ \E r \in RecIds :
          \/ /\ r \in voiceReq
             /\ \E v \in {VoiceOutcome(result) : result \in VoiceResults} :
                   VoiceSucceededLeaving(r, v)
          \/ VoiceSucceededUnmounted(r)
    /\ UNCHANGED apiVars
    /\ Stamp
SendMessage ==
    /\ \E text \in Texts : HandleSendMessage(text)
    /\ UNCHANGED apiVars
    /\ Stamp
ChatResolves ==
    /\ \E i \in 1..Len(chatReqs) :
          \/ /\ mounted
             /\ \E v \in {ChatOutcome(i, response) :
                            response \in ChatResponses} :
                   ChatResolvedLeaving(i, v)
          \/ ChatResolvedUnmounted(i)
    /\ UNCHANGED apiVars
    /\ Stamp
ChatRejects ==
    /\ \E i \in 1..Len(chatReqs) : ChatRejected(i) \/ ChatRejectedUnmounted(i)
    /\ UNCHANGED apiVars
    /\ Stamp
VoiceToggle ==
    /\ \E throws \in BOOLEAN : HandleVoiceToggle(throws)
    /\ UNCHANGED apiVars
    /\ UNCHANGED idVars
\* The host component of the hook calls a control function; an unmounted
\* host calls none.
StartCall ==
    /\ ~crashed
    /\ StartRecording
    /\ UNCHANGED apiVars
    /\ UNCHANGED idVars
StopCall ==
    /\ ~crashed
    /\ \E throws \in BOOLEAN : StopRecording(throws)
    /\ UNCHANGED apiVars
    /\ UNCHANGED idVars
CancelCall ==
    /\ ~crashed
    /\ \E throws \in BOOLEAN : CancelRecording(throws)
    /\ UNCHANGED apiVars
    /\ UNCHANGED idVars
ResetCall ==
    /\ ~crashed
    /\ ResetTranscript
    /\ UNCHANGED apiVars
    /\ UNCHANGED idVars
InitialDataResolves ==
    /\ \/ LoadInitialDataResolved /\ StampAfter(0)   \* setMessages([m])
       \/ LoadInitialDataUnmounted /\ UNCHANGED idVars
InitialDataRejects ==
    /\ \/ LoadInitialDataRejected
       \/ LoadInitialDataUnmounted
    /\ UNCHANGED idVars

Next ==
    \/ SendMessage
    \/ ChatResolves
    \/ ChatRejects
    \/ InitialDataResolves
    \/ InitialDataRejects
    \/ VoiceToggle
    \/ EffectsRun
    \/ GetUserMediaResolves
    \/ GetUserMediaRejects
    \/ DataAvailable
    \/ RecorderStops
    \/ TracksEnd
    \/ RecorderErrors
    \/ VoiceFails
    \/ VoiceSucceeds

Spec == Init /\ [][Next]_vars

\* The mounted application with a backend whose text endpoint answers: the
\* axios instance of chatAPI settles every POST within its timeout of 60 s.
\* The voice POST is a fetch without timeout or abort signal, and nothing
\* is assumed of it.  isLoading and isProcessing are cleared by the
\* handlers whatever the payload holds, so the answers are drawn from the
\* payloads without session id, location change or weather; they still
\* come with and without query_intelligence and location_info, which decide
\* whether the handler throws and whether the answer can be rendered.
PlainChatResponses == {p \in ChatResponses : BarePayload(p)}
PlainVoiceResults ==
    {p \in VoiceResults : BarePayload(p) /\ p.confidence = 90}

ChatResolvesPlain ==
    /\ \E i \in 1..Len(chatReqs) :
          \/ /\ mounted
             /\ \E v \in {ChatOutcome(i, response) :
                            response \in PlainChatResponses} :
                   ChatResolvedLeaving(i, v)
          \/ ChatResolvedUnmounted(i)
    /\ UNCHANGED apiVars
    /\ Stamp
VoiceSucceedsPlain ==
    /\ \E r \in RecIds :
          \/ /\ r \in voiceReq
             /\ \E v \in {VoiceOutcome(result) :
                            result \in PlainVoiceResults} :
                   VoiceSucceededLeaving(r, v)
          \/ VoiceSucceededUnmounted(r)
    /\ UNCHANGED apiVars
    /\ Stamp

NextLive ==
    \/ SendMessage
    \/ ChatResolvesPlain
    \/ ChatRejects
    \/ InitialDataResolves
    \/ InitialDataRejects
    \/ VoiceToggle
    \/ EffectsRun
    \/ GetUserMediaResolves
    \/ GetUserMediaRejects
    \/ DataAvailable
    \/ RecorderStops
    \/ TracksEnd
    \/ RecorderErrors
    \/ VoiceFails
    \/ VoiceSucceedsPlain

ChatSettles == WF_vars(ChatResolvesPlain \/ ChatRejects)

SpecLive == Init /\ [][NextLive]_vars /\ ChatSettles

\* The hook used on its own: its control functions are called in any state
\* and no view has installed window.deepgramResult, so that nothing reads
\* the payload of a voice result.
InitHook ==
    /\ InitHookState
    /\ InitViewState
    /\ mounted = FALSE
    /\ effectDue = "no"
    /\ initData = 0
    /\ InitApiState
    /\ InitIdState

NextHook ==
    \/ StartCall
    \/ StopCall
    \/ CancelCall
    \/ ResetCall
    \/ GetUserMediaResolves
    \/ GetUserMediaRejects
    \/ DataAvailable
    \/ RecorderStops
    \/ TracksEnd
    \/ RecorderErrors
    \/ VoiceFails
    \/ VoiceSucceedsPlain

SpecHook == InitHook /\ [][NextHook]_vars

\* The hook and apiUtils used on their own: a caller holds some blob, or
\* none, and validates it once.
InitApi ==
    /\ InitHookState
    /\ InitViewState
    /\ mounted = FALSE
    /\ effectDue = "no"
    /\ initData = 0
    /\ audioBlob \in {blob \in AudioBlobs : blob.data # "noise"}
    /\ validation = NoValidation
    /\ InitIdState

NextApi ==
    \/ ValidateCall
    \/ StartCall
    \/ StopCall
    \/ CancelCall
    \/ ResetCall
    \/ GetUserMediaResolves
    \/ GetUserMediaRejects
    \/ DataAvailable
    \/ RecorderStops
    \/ TracksEnd
    \/ RecorderErrors
    \/ VoiceFails
    \/ VoiceSucceedsPlain

SpecApi == InitApi /\ [][NextApi]_vars

\* apiUtils.validateAudioBlob alone, applied once to each blob, with any
\* bytes.
InitValidate ==
    /\ InitHookState
    /\ InitViewState
    /\ mounted = FALSE
    /\ effectDue = "no"
    /\ initData = 0
    /\ audioBlob \in AudioBlobs
    /\ validation = NoValidation
    /\ InitIdState

NextValidate == ValidateCall

SpecValidate == InitValidate /\ [][NextValidate]_vars

\* The text path of the mounted application with a running clock: between
\* two handlers, and between two readings of one handler, Date.now() may
\* advance by any number of milliseconds.
InitIds ==
    /\ InitApp
    /\ now = 0
    /\ ids = <<>>

Tick ==
    /\ now < MaxNow
    /\ now' = now + 1
    /\ UNCHANGED <<hookVars, platVars, viewVars, apiVars, ids, histVars>>

NextIds ==
    \/ Tick
    \/ SendMessage
    \/ ChatResolves
    \/ ChatRejects
    \/ InitialDataResolves
    \/ InitialDataRejects
    \/ EffectsRun

SpecIds == InitIds /\ [][NextIds]_vars

\* The mounted application after a first text exchange was answered with
\* {success: true, session_id: 1} and the effects of that render have run,
\* while one call of loadInitialData is still waiting; the bounds then
\* count the operations that follow.
InitSession ==
    /\ InitHookState
    /\ isSupported /\ ~crashed
    /\ mounted = TRUE
    /\ messages = <<Msg("user", FALSE), Msg("assistant", FALSE)>>
    /\ isLoading = FALSE
    /\ currentWeather = 0
    /\ error = "none"
    /\ effectDue = "no"
    /\ sessionId = 1
    /\ deepgramResult = 1
    /\ currentLocation = "Tokyo"
    /\ initData = 1
    /\ chatReqs = <<>>
    /\ sends = 0
    /\ InitApiState
    /\ now = MaxNow
    /\ ids = <<MessageId("user", MaxNow), MessageId("assistant", MaxNow)>>

SpecSession == InitSession /\ [][Next]_vars

\* ------------------------------------------------------------- claims
\* Backend exchanges in flight: text POSTs plus voice POSTs.
Outstanding ==
    Len(chatReqs) + Cardinality(voiceReq)

\* C1: at most one backend exchange (text or voice) is outstanding in every
\* reachable state of the mounted application.
C1_SingleFlight == Outstanding <= 1

\* Recorders that are running.
Running == {r \in RecIds : rstate[r] = "recording"}

\* C2: there is never more than one live media stream and never more than
\* one running recorder, whatever the interleaving of startRecording calls.
C2_OneSession == Cardinality(streamLive) <= 1 /\ Cardinality(Running) <= 1

\* The state cancelRecording is specified to leave behind.
CancelPost ==
    /\ ~isRecording /\ ~isProcessing
    /\ audioChunksRef = <<>>
    /\ streamRef = 0 /\ streamLive = {}
    /\ ~uncaught

\* Every field cancelRecording writes has the value it writes.
JustCancelled == CancelPost /\ voiceError = "none"

\* C3: cancelRecording in any controller state leaves the controller idle
\* with no buffered chunks and no held microphone stream and raises no
\* error; a cancelRecording step from such a state changes nothing.
C3_CancelIdempotent ==
    [][(\E throws \in BOOLEAN : CancelRecording(throws))
         => CancelPost' /\ (JustCancelled => UNCHANGED vars)]_vars

\* C4: once cancelRecording was called on a recording session, the stop task
\* of that session does not re-enter processing, re-populate the chunk
\* buffer, set an error or submit the audio.
C4_CancelPrecedence ==
    [][\A r \in RecIds, final \in BOOLEAN :
         (stopCause[r] = "cancel" /\ RecorderStopped(r, final))
           => /\ ~isProcessing'
              /\ audioChunksRef' = audioChunksRef
              /\ voiceError' = voiceError
              /\ voiceReq' = voiceReq]_vars

\* C5: a recorder error during an active capture leaves the controller idle,
\* the stream of that capture released, and starts no new recording.
C5_ErrorToIdle ==
    [][\A r \in RecIds, withStop \in BOOLEAN, final \in BOOLEAN :
         RecorderError(r, withStop, final)
           => /\ ~isRecording' /\ ~isProcessing'
              /\ r \notin streamLive'
              /\ pendingStarts' = pendingStarts /\ granted' = granted]_vars

\* C6: a capture ended by stopRecording has its stream released when its
\* stop task has run, whatever happens to the blob afterwards.
C6_StopReleases ==
    [][\A r \in RecIds, final \in BOOLEAN :
         (stopCause[r] = "stop" /\ RecorderStopped(r, final))
           => r \notin streamLive']_vars

\* C7: when startRecording fails (getUserMedia rejected, or the recorder
\* throwing after the stream was acquired) the controller is idle and no
\* microphone stream granted to that call stays live.
C7_StartFailureReleases ==
    [][/\ \A outcome \in RecorderStartOutcomes \ {"ok"} :
            GetUserMediaResolved(outcome)
              => ~isRecording' /\ granted' \notin streamLive'
       /\ \A name \in RecorderConstructorErrors :
            RecorderNotConstructed(name)
              => ~isRecording' /\ granted' \notin streamLive'
       /\ \A name \in GetUserMediaErrors :
            GetUserMediaRejected(name)
              => ~isRecording' /\ streamLive' = streamLive]_vars

\* C8: every change of the message list extends the previous list at the end.
C8_AppendOnly == [][IsPrefix(messages, messages')]_vars

\* A successful text response or voice result was processed in this step.
TextProcessed(response) ==
    response.success /\ \E i \in 1..Len(chatReqs) : ChatResolved(i, response)
VoiceProcessed(result) ==
    result.chat_success /\ \E r \in RecIds : VoiceSucceeded(r, result)

\* C9: after a successful response carrying a session identifier is
\* processed the stored identifier equals it; after one that omits
\* session_id the stored identifier is unchanged.
C9_SessionFollowsResponse ==
    [][/\ \A response \in ChatResponses :
            TextProcessed(response)
              => sessionId' = IF response.session_id # 0
                              THEN response.session_id ELSE sessionId
       /\ \A result \in VoiceResults :
            VoiceProcessed(result)
              => sessionId' = IF result.session_id # 0
                              THEN result.session_id ELSE sessionId]_vars

\* C10: once the stored session identifier is set it never changes.
C10_SessionStable == [][sessionId # 0 => sessionId' = sessionId]_vars

\* C10 as amended: the stored session identifier changes only when a
\* successful response carrying a different session_id is processed, it then
\* equals that session_id, and it is never reset to null.
C10_SessionChangesByResponse ==
    [][sessionId' # sessionId
         => /\ sessionId' # 0
            /\ \/ \E response \in ChatResponses :
                     response.session_id = sessionId' /\ TextProcessed(response)
               \/ \E result \in VoiceResults :
                     result.session_id = sessionId' /\ VoiceProcessed(result)]_vars

\* Session 1 was stored and a later exchange replaced it by session 2.
C10_Overwritten == sessionId = 2 /\ Len(messages) > 2

\* The step settled a text request, or a voice request: the request left
\* the outstanding ones.
TextSettled == Len(chatReqs') < Len(chatReqs)
VoiceSettled == voiceReq' # voiceReq /\ voiceReq' \subseteq voiceReq

\* Entries of a log that announce a location change.
LocationChanges(log) ==
    Cardinality({k \in 1..Len(log) : log[k].type = "location_change"})

\* What C11 requires of the view a handler leaves (after) when it processed
\* a successful payload on the view before.
LocationFollows(before, after, changed, location) ==
    /\ IsPrefix(before.messages, after.messages)
    /\ IF changed
       THEN /\ LocationChanges(after.messages)
                 = LocationChanges(before.messages) + 1
            /\ after.currentLocation = location
       ELSE /\ LocationChanges(after.messages)
                 = LocationChanges(before.messages)
            /\ after.currentLocation = before.currentLocation

\* C11: processing a successful response with location_changed = true
\* appends exactly one location-change message and makes the current
\* location the response's; without a location change no such message is
\* appended and the current location is unchanged.  Stated of every
\* successful payload that can settle a pending text or voice request in
\* the current state, on the view the handler then runs on.
C11_LocationFollowsResponse ==
    /\ \A i \in 1..Len(chatReqs), response \in ChatResponses :
         response.success =>
           LocationFollows(View,
                           ProcessIntelligentChatResponse(
                               response, FALSE, chatReqs[i].session_id, View),
                           response.location_changed, response.location)
    /\ (mounted /\ voiceReq # {}) =>
         \A result \in VoiceResults :
           result.chat_success =>
             LocationFollows(View, HandleVoiceProcessingResult(result, View),
                             result.location_changed, result.location)

\* A location change was processed: announced once and stored.
C11_LocationChanged ==
    /\ currentLocation = "Mumbai"
    /\ LocationChanges(messages) = 1
    /\ messages[Len(messages)].type = "assistant"

\* The log ends with the optimistic user message of a text submission: no
\* other entry was added, and the log was not replaced, since the send.
EndsWithUserText(log) ==
    Len(log) > 0 /\ log[Len(log)] = Msg("user", FALSE)

\* C12: a text submission answered by a successful response with a session
\* id, location_changed = true and a weather payload extends the log by
\* exactly user, location-change, assistant; the stored session id and the
\* cached weather become the response's.  The send appends the user message,
\* so when the answer is processed the log still ends with it and the answer
\* adds the other two entries.
C12_FullExchange ==
    [][\A i \in 1..Len(chatReqs), response \in ChatResponses :
         (/\ ChatResolved(i, response)
          /\ response.success /\ response.session_id # 0
          /\ response.location_changed /\ response.weather # 0)
           => /\ EndsWithUserText(messages)
              /\ messages' = messages \o <<Msg("location_change", FALSE),
                                            Msg("assistant", FALSE)>>
              /\ sessionId' = response.session_id
              /\ currentWeather' = response.weather]_vars

\* C13: when the chat call of a text submission fails the log gains exactly
\* the user message followed by one error message, and session id, current
\* location and cached weather are unchanged.
C13_FailedExchange ==
    [][\A i \in 1..Len(chatReqs) :
         ChatRejected(i)
           => /\ EndsWithUserText(messages)
              /\ messages' = Append(messages, Msg("error", FALSE))
              /\ sessionId' = sessionId
              /\ currentLocation' = currentLocation
              /\ currentWeather' = currentWeather]_vars

\* The step left a visible error: a non-null banner, an error the
\* scheduled effect is about to copy to the banner, or an error entry added
\* at the end of the log.
ErrorShown ==
    \/ error' # "none"
    \/ effectDue' # "no"
    \/ /\ messages' # messages
       /\ messages'[Len(messages')].type = "error"

\* C14: every backend exchange, text or voice, that ends without an
\* assistant reply leaves a visible error (banner or error entry).
C14_NothingSwallowed ==
    [][/\ TextSettled =>
            \A i \in 1..Len(chatReqs) :
              /\ ChatRejected(i) => ErrorShown
              /\ \A response \in ChatResponses :
                   (ChatResolved(i, response) /\ ~response.success)
                     => ErrorShown
       /\ (mounted /\ VoiceSettled) =>
            \A r \in voiceReq :
              /\ VoiceFailed(r) => ErrorShown
              /\ \A result \in VoiceResults :
                   (VoiceSucceeded(r, result) /\ ~result.chat_success)
                     => ErrorShown]_vars

\* The handler changed neither session id, current location nor cached
\* weather of the view it ran on.
ContextUnchanged(before, after) ==
    /\ after.sessionId = before.sessionId
    /\ after.currentLocation = before.currentLocation
    /\ after.currentWeather = before.currentWeather

\* C15: a response whose success flag is false or absent leaves session id,
\* current location and cached weather unchanged and appends no
\* location-change or assistant message (on the voice path only the
\* transcribed user message is appended).  Stated of every unsuccessful
\* payload that can settle a pending text or voice request in the current
\* state, on the view the handler then runs on.
C15_UnsuccessfulLeavesContext ==
    /\ \A i \in 1..Len(chatReqs), response \in ChatResponses :
         ~response.success =>
           LET after == ProcessIntelligentChatResponse(
                            response, FALSE, chatReqs[i].session_id, View) IN
           /\ ContextUnchanged(View, after)
           /\ after.messages = messages
    /\ (mounted /\ voiceReq # {}) =>
         \A result \in VoiceResults :
           ~result.chat_success =>
             LET after == HandleVoiceProcessingResult(result, View) IN
             /\ ContextUnchanged(View, after)
             /\ after.messages = Append(messages, Msg("user", TRUE))

\* A text submission was answered without success: the request is gone and
\* the log holds the user message alone.
C15_UnsuccessfulAnswered ==
    /\ sends = 1 /\ chatReqs = <<>>
    /\ messages = <<Msg("user", FALSE)>>
    /\ sessionId = 0 /\ currentLocation = "Tokyo"

\* C16: a successful voice result is processed in the same way whatever its
\* confidence: in every state in which a voice result can arrive, the
\* entries appended and the context updates are the same for the result
\* with any other confidence.
C16_ConfidenceNeverBlocks ==
    (mounted /\ voiceReq # {}) =>
      \A result \in VoiceResults :
        \A c \in Confidences \ {result.confidence} :
          HandleVoiceProcessingResult(result, View) =
            HandleVoiceProcessingResult([result EXCEPT !.confidence = c], View)

\* A voice exchange was answered by the assistant (results of confidence
\* 0.55 and 0.9 arrive alike).
C16_VoiceAnswered ==
    /\ Len(messages) >= 2
    /\ messages[Len(messages)] = Msg("assistant", TRUE)
    /\ \E k \in 1..Len(messages) - 1 : messages[k] = Msg("user", TRUE)

\* A text response body handed to the voice path: the voice result that
\* carries the same payload.
AsVoiceResult(response, c) ==
    [success |-> TRUE, chat_success |-> response.success, confidence |-> c,
     session_id |-> response.session_id,
     location_info |-> response.location_info,
     location_changed |-> response.location_changed,
     location |-> response.location, weather |-> response.weather,
     query_intelligence |-> response.query_intelligence]

\* The entries a handler appended to the log, as their types.
AppendedTypes(before, after) ==
    [k \in 1..(Len(after) - Len(before)) |-> after[Len(before) + k].type]

\* C17: a text response is processed as the voice path processes the same
\* payload in the same state: session id, current location and cached
\* weather end up the same, and the entries appended are the same after the
\* user message (the voice flags aside).
C17_VoiceAsText ==
    [][\A i \in 1..Len(chatReqs), response \in ChatResponses,
          c \in Confidences :
         ChatResolved(i, response)
           => LET u == HandleVoiceProcessingResult(
                           AsVoiceResult(response, c), View) IN
              /\ sessionId' = u.sessionId
              /\ currentLocation' = u.currentLocation
              /\ currentWeather' = u.currentWeather
              /\ <<"user">> \o AppendedTypes(messages, messages')
                   = AppendedTypes(messages, u.messages)]_vars

\* The guard of startRecording lets a call through.
StartAccepted == isSupported /\ ~isRecording /\ ~isProcessing

\* C18: when a capture ended by stopRecording has assembled no audio, its
\* stop task sets the empty-recording error, posts nothing to the backend
\* and leaves the controller idle, so that startRecording is accepted again.
C18_EmptyRecording ==
    [][\A r \in RecIds, final \in BOOLEAN :
         (/\ stopCause[r] = "stop"
          /\ RecorderStopped(r, final)
          /\ audioChunksRef' = <<>>)
           => /\ voiceError' = "empty"
              /\ voiceReq' = voiceReq
              /\ StartAccepted']_vars

\* A first capture ended empty and a second startRecording was accepted.
C18_EmptyThenRetried ==
    /\ rstate[1] = "inactive" /\ rstate[2] = "recording"
    /\ voiceError = "none" /\ error = "empty"
    /\ voiceReq = {} /\ streamLive = {2} /\ messages = <<>>

\* The argument of validateAudioBlob was missing or empty.
EmptyBlob == ~audioBlob.present \/ audioBlob.size = 0

\* C19: for a blob of size 0, or none, validateAudioBlob returns a result
\* (it does not throw) with valid = false and the empty-audio error; and no
\* recording whose assembled audio is empty is posted to the backend.
C19_EmptyNeverSubmitted ==
    [][/\ (ValidateCall /\ EmptyBlob)
            => /\ validation'.called /\ ~validation'.valid
               /\ validation'.errors = <<[kind |-> "empty", mb10 |-> 0]>>
       /\ \A r \in RecIds :
            (r \in voiceReq' /\ r \notin voiceReq)
              => audioChunksRef' # <<>>]_vars

\* An empty blob was validated and an empty recording was dropped.
C19_EmptyRejected ==
    /\ validation.called /\ audioBlob.present /\ audioBlob.size = 0
    /\ ~validation.valid
    /\ voiceError = "empty" /\ voiceReq = {}

\* C20: a blob larger than 500 MiB is invalid with a too-large error that
\* quotes its size in MB; a blob of exactly 500 MiB has no error.
C20_TooLarge ==
    validation.called =>
      /\ (audioBlob.present /\ audioBlob.size > 500 * 1024 * 1024)
           => /\ ~validation.valid
              /\ Len(validation.errors) = 1
              /\ validation.errors[1].kind = "too_large"
              /\ validation.errors[1].mb10 >= 5000
      /\ (audioBlob.present /\ audioBlob.size = 500 * 1024 * 1024)
           => validation.valid /\ validation.errors = <<>>

\* A blob one byte over the limit was rejected as 500.0MB.
C20_OneByteOver ==
    /\ validation.called /\ audioBlob.present
    /\ audioBlob.size = 500 * 1024 * 1024 + 1
    /\ ~validation.valid
    /\ validation.errors[1].mb10 = 5000

\* C21: a blob of more than 0 and fewer than 1024 bytes is valid, with a
\* non-empty list of warnings and no error.
C21_SmallWarned ==
    (/\ validation.called /\ audioBlob.present
     /\ 0 < audioBlob.size /\ audioBlob.size < 1024)
      => /\ validation.valid
         /\ validation.warnings # <<>>
         /\ validation.errors = <<>>

\* A blob of 1023 bytes was validated: valid, and warned about.
C21_Validated1023 ==
    /\ validation.called /\ audioBlob.present /\ audioBlob.size = 1023
    /\ validation.valid /\ validation.warnings[1] = "very_small"

\* The listed encodings, as parts of a MIME type.
ListedEncoding(type) ==
    \E k \in 1..Len(type) : type[k] \in {"webm", "wav", "mp3", "ogg"}

\* C22: a blob of more than 0 and at most 500 MiB is valid whatever its
\* encoding, an encoding outside webm/wav/mp3/ogg adding a warning only;
\* and the result depends on nothing but the argument's presence, size and
\* type: it is the result of every blob of that size and type, whatever
\* bytes the blob holds.
C22_WarningsNeverBlock ==
    validation.called =>
      /\ (/\ audioBlob.present /\ 0 < audioBlob.size
          /\ audioBlob.size <= 500 * 1024 * 1024)
           => /\ validation.valid /\ validation.errors = <<>>
              /\ ~ListedEncoding(audioBlob.type)
                   => \E k \in 1..Len(validation.warnings) :
                        validation.warnings[k] = "type_not_optimal"
      /\ \A blob \in AudioBlobs :
           (/\ blob.present = audioBlob.present /\ blob.size = audioBlob.size
            /\ blob.type = audioBlob.type /\ blob.data # audioBlob.data)
             => ValidateAudioBlob(blob) = validation

\* A blob of an unlisted encoding was validated: valid, with the warning.
C22_OddTypeAccepted ==
    /\ validation.called /\ audioBlob.present
    /\ audioBlob.type = <<"audio/", "mpeg">> /\ audioBlob.size = 1024
    /\ validation.valid /\ validation.warnings = <<"type_not_optimal">>

\* C23: a failure of startRecording is reported by the message of its
\* reason: permission denied, device not found and unsupported format have
\* three different messages, any other failure has the generic one, and
\* isRecording is false afterwards.
C23_StartErrorMapped ==
    [][/\ \A name \in GetUserMediaErrors :
            GetUserMediaRejected(name)
              => /\ ~isRecording'
                 /\ voiceError' =
                      CASE name = "NotAllowedError"   -> "denied"
                        [] name = "NotFoundError"     -> "notfound"
                        [] name = "NotSupportedError" -> "notsupported"
                        [] OTHER                      -> "startfailed"
       /\ \A outcome \in RecorderStartOutcomes \ {"ok"} :
            GetUserMediaResolved(outcome)
              => /\ ~isRecording'
                 /\ voiceError' = IF outcome = "NotSupportedError"
                                  THEN "notsupported" ELSE "startfailed"
       /\ \A name \in RecorderConstructorErrors :
            RecorderNotConstructed(name)
              => /\ ~isRecording'
                 /\ voiceError' = IF name = "NotSupportedError"
                                  THEN "notsupported" ELSE "startfailed"]_vars

\* A start was refused because no microphone was found.
C23_DeviceNotFound ==
    /\ voiceError = "notfound" /\ ~isRecording
    /\ pendingStarts = 0 /\ granted = 0

\* C24: no request is sent without a user-triggered submission and none is
\* repeated.  A text request appears only in a step that is a text send,
\* one per send; a voice request appears only in the step that ends its
\* recording, and an ended recording stays ended; the step that handles a
\* failed request removes it and sends nothing.
C24_NoRetries ==
    [][/\ Len(chatReqs') > Len(chatReqs)
            => sends' = sends + 1 /\ Len(chatReqs') = Len(chatReqs) + 1
       /\ Len(chatReqs') <= sends'
       /\ \A r \in RecIds :
            /\ (r \in voiceReq' /\ r \notin voiceReq)
                 => r <= granted /\ rstate[r] # "inactive"
                                /\ rstate'[r] = "inactive"
            /\ rstate[r] = "inactive" => rstate'[r] = "inactive"
            /\ (r \in voiceReq /\ VoiceFailed(r))
                 => voiceReq' = voiceReq \ {r} /\ chatReqs' = chatReqs
       /\ \A i \in 1..Len(chatReqs) :
            ChatRejected(i)
              => Len(chatReqs') = Len(chatReqs) - 1 /\ voiceReq' = voiceReq]_vars

\* A text request and a voice request have both failed and nothing is
\* outstanding.
C24_BothFailed ==
    /\ sends = 1 /\ chatReqs = <<>> /\ voiceReq = {}
    /\ granted = 1 /\ rstate[1] = "inactive"
    /\ voiceError = "processing"
    /\ \E k \in 1..Len(messages) : messages[k].type = "error"

\* The step ended recorder r's capture with no audio assembled, or settled
\* the voice request that posted r's audio, in the mounted hook.
VoiceEnded(r) ==
    \/ \E final \in BOOLEAN :
          RecorderStopped(r, final) /\ audioChunksRef' = <<>>
    \/ VoiceFailed(r)
    \/ /\ r \in voiceReq /\ r \notin voiceReq'
       /\ \E result \in VoiceResults : VoiceSucceeded(r, result)

\* C25: the view always returns to idle, whatever the error flag holds.
\* While the root is mounted a set isLoading is eventually cleared, the text
\* request being settled within the timeout of the axios instance.  The
\* voice request has no timeout, so nothing is claimed of when it settles:
\* isProcessing is set only while a voice request is outstanding, and the
\* step in which that request resolves or rejects, or in which a recording
\* turns out empty, leaves isProcessing false.
C25_ReturnsToIdle ==
    /\ isLoading ~> (~isLoading \/ crashed)
    /\ [][/\ (isProcessing' /\ ~crashed') => voiceReq' # {}
          /\ \A r \in RecIds : VoiceEnded(r) => ~isProcessing']_vars

\* The voice path is back to idle after a failed voice request, with the
\* error flag still set.
C25_IdleWithError ==
    /\ sends = 0 /\ granted = 1 /\ rstate[1] = "inactive"
    /\ voiceReq = {} /\ pendingStarts = 0
    /\ ~isLoading /\ ~isProcessing /\ ~isRecording
    /\ error = "processing"

\* C26: the precondition guards are no-ops.  A startRecording call made
\* while unsupported, recording or processing, and a stopRecording call made
\* while not recording, change nothing: no microphone request is added, no
\* recorder is touched, no state is written.
C26_GuardsAreNoOps ==
    [][/\ (StartRecording /\ (~isSupported \/ isRecording \/ isProcessing))
            => pendingStarts' = pendingStarts /\ UNCHANGED vars
       /\ \A throws \in BOOLEAN :
            (StopRecording(throws) /\ ~isRecording)
              => rstate' = rstate /\ UNCHANGED vars]_vars

\* The hook is processing recorder 1's audio and not recording: both
\* guards reject.
C26_BothGuardsReject ==
    /\ isSupported /\ isProcessing /\ ~isRecording
    /\ mediaRecorderRef = 1 /\ voiceReq = {1}
    /\ pendingStarts = 0 /\ Attempts < MaxAttempts

\* C27: the recording and processing flags are mutually exclusive:
\* isRecording and isProcessing are never both true in a reachable state of
\* the hook.
C27_FlagsExclusive == ~(isRecording /\ isProcessing)

\* C28: chunk-buffer isolation.  The blob assembled when recorder r stops
\* is built from audioChunksRef as the stop task leaves it; every chunk in
\* it was delivered by r, none by another recorder.
C28_ChunkIsolation ==
    [][\A r \in RecIds :
         (r \in voiceReq' /\ r \notin voiceReq)
           => \A k \in 1..Len(audioChunksRef') : audioChunksRef'[k] = r]_vars

\* C29: session continuity across paths.  Once the view holds a session
\* identifier, every request sent afterwards carries it: a text request in
\* the session_id of its JSON body, a voice request in the session_id field
\* of its multipart form.
C29_SessionCarried ==
    [][sessionId # 0 =>
         /\ Len(chatReqs') > Len(chatReqs)
              => chatReqs'[Len(chatReqs')].session_id = sessionId
         /\ \A r \in RecIds :
              (mounted /\ r \in voiceReq' /\ r \notin voiceReq)
                => /\ "session_id" \in DOMAIN ProcessAudioFormData
                   /\ ProcessAudioFormData["session_id"] = sessionId]_vars

\* C30: the message identifiers of the conversation log are pairwise
\* distinct, for any non-decreasing clock readings of the handlers.
C30_DistinctIds ==
    \A i, j \in 1..Len(ids) : i # j => ids[i] # ids[j]

====
